---- MODULE Spec2Model ----
(***************************************************************************)
(* A model of the Si5351 driver of src/src/si5351.cpp: the two frequency   *)
(* planners (si5351_Calc, si5351_CalcIQ), the register encoder             *)
(* (si5351_writeBulk) and the programming calls (si5351_Init,              *)
(* si5351_SetupPLL, si5351_SetupOutput, si5351_SetupCLK0/2,                *)
(* si5351_EnableOutputs) acting on the chip's register file over a bus     *)
(* whose single-register write may fail.                                   *)
(*                                                                         *)
(* Three specifications share the variables:                               *)
(*   Spec       the driver: from the state after si5351_Init, any sequence *)
(*              of at most MaxCalls calls of the API;                      *)
(*   SpecCalc   the planners as pure functions: Init draws the target      *)
(*              frequency, one action per planner applies it;              *)
(*   SpecSetup  the encoder and the two setup calls as single calls on     *)
(*              parameters drawn from the edges of the data model.         *)
(***************************************************************************)
EXTENDS Integers, Sequences, FiniteSets, TLC

VARIABLES
    si5351Correction,  \* the global int32_t si5351Correction
    regs,              \* the chip's registers, as the acknowledged writes left them
    log,               \* the register writes issued by the most recent call, in order
    ret,               \* the value the most recent call returned (0 for a void call)
    call,              \* the most recent call and its arguments
    pll_conf,          \* the caller's si5351PLLConfig_t, as the last planner call left it
    out_conf,          \* the caller's si5351OutputConfig_t, as the last planner call left it
    lastPLL,           \* per PLL, the parameters most recently passed to si5351_SetupPLL
    busFailed,         \* whether some register write so far went unacknowledged
    ncalls,            \* number of API calls made since the initial state
    req                \* the call a single-call specification is about to make

vars == <<si5351Correction, regs, log, ret, call, pll_conf, out_conf, lastPLL, busFailed, ncalls, req>>

----------------------------------------------------------------------------
(* Bounds of the model *)

\* Longest sequence of API calls explored after initialization.
MaxCalls == 2

\* Half-width of the window of frequencies taken around every anchor frequency.
Window == 2

\* Number of evenly spaced frequencies swept across the planners' range.
Steps == 40

----------------------------------------------------------------------------
(* C arithmetic *)

Abs(n) == IF n < 0 THEN -n ELSE n

\* C's integer division truncates toward zero, and % takes the dividend's sign.
CDiv(a, b) == IF (a >= 0) = (b > 0) THEN Abs(a) \div Abs(b) ELSE -(Abs(a) \div Abs(b))

CMod(a, b) == a - b * CDiv(a, b)

RECURSIVE Pow2(_)
Pow2(k) == IF k = 0 THEN 1 ELSE 2 * Pow2(k - 1)

\* x >> k on an int32_t (an arithmetic shift: the sign is kept).
Shr(x, k) == x \div Pow2(k)

\* x << k on a value the code keeps small enough not to overflow.
Shl(x, k) == x * Pow2(k)

\* Bitwise and / or, bit by bit, of two integers of which the low `n` bits are
\* significant (the operands of the code's masks are non-negative or masked
\* by a non-negative constant, so the result has no bit above the mask's).
RECURSIVE BitAndN(_, _, _)
BitAndN(a, b, n) ==
    IF n = 0 THEN 0
    ELSE (IF a % 2 = 1 /\ b % 2 = 1 THEN 1 ELSE 0) + 2 * BitAndN(a \div 2, b \div 2, n - 1)

RECURSIVE BitOrN(_, _, _)
BitOrN(a, b, n) ==
    IF n = 0 THEN 0
    ELSE (IF a % 2 = 1 \/ b % 2 = 1 THEN 1 ELSE 0) + 2 * BitOrN(a \div 2, b \div 2, n - 1)

\* a & mask, for a mask of at most 8 bits.
And8(a, mask) == BitAndN(a, mask, 8)

\* a | b on values of at most 8 bits.
Or8(a, b) == BitOrN(a, b, 8)

\* Conversion to uint8_t.
U8(x) == x % 256

----------------------------------------------------------------------------
(* The planners *)

Fxtal == 25000000

SI5351_R_DIV_1 == 0

SI5351_R_DIV_64 == 6

\* Fclk = Fclk - ((Fclk/1000000)*si5351Correction)/100
ApplyCorrection(Fclk, correction) ==
    Fclk - CDiv(CDiv(Fclk, 1000000) * correction, 100)

\* si5351_Calc, lines 217-228: the PLL fixed at 900 MHz, a fractional divider.
CalcLow(Fclk) ==
    LET Fpll == 900000000
        t    == Shr(Fclk, 20) + 1
    IN  [mult |-> 36, num |-> 0, denom |-> 1,
         div |-> CDiv(Fpll, Fclk),
         y   |-> CDiv(CMod(Fpll, Fclk), t),
         z   |-> CDiv(Fclk, t)]

CalcHigh_Always8(Fclk) ==
    LET x         == IF Fclk >= 150000000 THEN 4 ELSE 8
        numerator == x * Fclk
        t         == Shr(Fxtal, 20) + 1
    IN  [mult |-> CDiv(numerator, Fxtal),
         num  |-> CDiv(CMod(numerator, Fxtal), t),
         denom |-> CDiv(Fxtal, t),
         div |-> x, y |-> 0, z |-> 1]

\* si5351_Calc, lines 229-245: an integer divider 4, 6 or 8, a fractional PLL.
CalcHigh(Fclk) ==
    LET x         == IF Fclk >= 150000000 THEN 4
                     ELSE IF Fclk >= 100000000 THEN 6
                     ELSE 8
        numerator == x * Fclk
        t         == Shr(Fxtal, 20) + 1
    IN  [mult |-> CDiv(numerator, Fxtal),
         num  |-> CDiv(CMod(numerator, Fxtal), t),
         denom |-> CDiv(Fxtal, t),
         div |-> x, y |-> 0, z |-> 1]

\* si5351_Calc: the fields it assigns (it leaves pll_conf->allowIntegerMode and
\* out_conf->inverted as the caller had them).
si5351_Calc(FclkArg, correction) ==
    LET clamped == IF FclkArg < 8000 THEN 8000
                   ELSE IF FclkArg > 160000000 THEN 160000000
                   ELSE FclkArg
        scaled  == IF clamped < 1000000 THEN clamped * 64 ELSE clamped
        rdiv    == IF clamped < 1000000 THEN SI5351_R_DIV_64 ELSE SI5351_R_DIV_1
        Fclk    == ApplyCorrection(scaled, correction)
        p       == IF Fclk < 81000000 THEN CalcLow(Fclk) ELSE CalcHigh(Fclk)
    IN  [mult |-> p.mult, num |-> p.num, denom |-> p.denom,
         allowIntegerMode |-> 1, rdiv |-> rdiv,
         div |-> p.div, y |-> p.y, z |-> p.z]

IQDivider_LowPLL(Fclk) ==
    IF Fclk < 4900000 THEN 127
    ELSE IF Fclk < 8000000 THEN CDiv(525000000, Fclk)
    ELSE CDiv(900000000, Fclk)

\* si5351_CalcIQ, lines 282-292: the integer output divider.
IQDivider(Fclk) ==
    IF Fclk < 4900000 THEN 127
    ELSE IF Fclk < 8000000 THEN CDiv(625000000, Fclk)
    ELSE CDiv(900000000, Fclk)

\* si5351_CalcIQ, lines 296-299: the PLL that gives Fpll.
IQ_PLL_NoReduction(Fpll) ==
    [mult |-> CDiv(Fpll, Fxtal), num |-> CMod(Fpll, Fxtal), denom |-> CDiv(Fxtal, 24)]

IQ_PLL(Fpll) ==
    [mult |-> CDiv(Fpll, Fxtal), num |-> CDiv(CMod(Fpll, Fxtal), 24), denom |-> CDiv(Fxtal, 24)]

\* si5351_CalcIQ: the fields it assigns.
si5351_CalcIQ(FclkArg, correction) ==
    LET clamped == IF FclkArg < 1400000 THEN 1400000
                   ELSE IF FclkArg > 100000000 THEN 100000000
                   ELSE FclkArg
        Fclk    == ApplyCorrection(clamped, correction)
        div     == IQDivider(Fclk)
        p       == IQ_PLL(Fclk * div)
    IN  [mult |-> p.mult, num |-> p.num, denom |-> p.denom,
         allowIntegerMode |-> 0, rdiv |-> SI5351_R_DIV_1,
         div |-> div, y |-> 0, z |-> 1]

----------------------------------------------------------------------------
(* The register encoder and the bus *)

\* A register write, as si5351_write(reg, data) receives it: both are uint8_t.
W(reg, data) == <<U8(reg), U8(data)>>

si5351_writeBulk_P3HighLost(baseaddr, P1, P2, P3, divBy4, rdiv) ==
    << W(baseaddr,     And8(Shr(P3, 8), 255)),
       W(baseaddr + 1, And8(P3, 255)),
       W(baseaddr + 2, Or8(Or8(And8(Shr(P1, 16), 3), Shl(And8(divBy4, 3), 2)),
                           Shl(And8(rdiv, 7), 4))),
       W(baseaddr + 3, And8(Shr(P1, 8), 255)),
       W(baseaddr + 4, And8(P1, 255)),
       W(baseaddr + 5, Or8(And8(Shr(P3, 16), 240), And8(Shr(P2, 16), 15))),
       W(baseaddr + 6, And8(Shr(P2, 8), 255)),
       W(baseaddr + 7, And8(P2, 255)) >>

\* si5351_writeBulk: its eight writes, in the order it issues them.
si5351_writeBulk(baseaddr, P1, P2, P3, divBy4, rdiv) ==
    << W(baseaddr,     And8(Shr(P3, 8), 255)),
       W(baseaddr + 1, And8(P3, 255)),
       W(baseaddr + 2, Or8(Or8(And8(Shr(P1, 16), 3), Shl(And8(divBy4, 3), 2)),
                           Shl(And8(rdiv, 7), 4))),
       W(baseaddr + 3, And8(Shr(P1, 8), 255)),
       W(baseaddr + 4, And8(P1, 255)),
       W(baseaddr + 5, Or8(And8(Shr(P3, 12), 240), And8(Shr(P2, 16), 15))),
       W(baseaddr + 6, And8(Shr(P2, 8), 255)),
       W(baseaddr + 7, And8(P2, 255)) >>

\* The registers the driver addresses.
RegAddrs == {3} \cup (16..23) \cup (26..41) \cup (42..65) \cup (165..167) \cup {177, 183}

\* The registers after `writes` were sent in order, the writes at the positions in
\* `nack` not being acknowledged by the chip (si5351_write returns 1 for them).
RECURSIVE ApplyWrites(_, _, _, _)
ApplyWrites(r, writes, nack, i) ==
    IF i > Len(writes) THEN r
    ELSE ApplyWrites(IF i \in nack THEN r ELSE [r EXCEPT ![writes[i][1]] = writes[i][2]],
                     writes, nack, i + 1)

\* The writes of one call as the log records them.
Logged(writes, nack) ==
    [i \in 1..Len(writes) |-> [reg |-> writes[i][1], data |-> writes[i][2], ack |-> i \notin nack]]

\* What the bus may do to a call of n writes: acknowledge all, drop any one, drop all.
NackSets(n) == {{}} \cup {{k} : k \in 1..n} \cup {1..n}

\* The effect of a call's writes on the chip and on the log.
Issue(writes, nack) ==
    /\ regs' = ApplyWrites(regs, writes, nack, 1)
    /\ log' = Logged(writes, nack)
    /\ busFailed' = (busFailed \/ (nack \cap (1..Len(writes))) # {})

----------------------------------------------------------------------------
(* si5351_Init *)

SI5351_CRYSTAL_LOAD_10PF == 192

\* si5351_Init: its ten writes.
InitWrites ==
    << W(3, 255), W(16, 128), W(17, 128), W(18, 128), W(19, 128), W(20, 128),
       W(21, 128), W(22, 128), W(23, 128), W(183, SI5351_CRYSTAL_LOAD_10PF) >>

NoPLL == [set |-> FALSE, mult |-> 0, num |-> 0, denom |-> 1, allowIntegerMode |-> 0]

si5351_Init(correction, nack) ==
    /\ si5351Correction' = correction
    /\ Issue(InitWrites, nack)
    /\ ret' = 0
    /\ call' = [op |-> "Init", correction |-> correction]
    /\ lastPLL' = [p \in {"A", "B"} |-> NoPLL]
    /\ UNCHANGED <<pll_conf, out_conf>>

----------------------------------------------------------------------------
(* si5351_SetupPLL *)

\* The integer-mode condition of line 84.
PLLIntegerMode(conf) ==
    conf.allowIntegerMode # 0 /\ conf.num = 0 /\ CMod(conf.mult, 2) = 0

PLL_P1(conf) == 128 * conf.mult + CDiv(128 * conf.num, conf.denom) - 512

PLL_P2_NoModulo(conf) == 128 * conf.num

PLL_P2(conf) == CMod(128 * conf.num, conf.denom)

PLL_P3(conf) == conf.denom

IntCtlAddr(pll) == IF pll = "A" THEN 22 ELSE 23

PLLBase(pll) == IF pll = "A" THEN 26 ELSE 34

\* si5351_SetupPLL: its writes, in order.
SetupPLLWrites(pll, conf) ==
    (IF PLLIntegerMode(conf) THEN << W(IntCtlAddr(pll), Or8(Shl(1, 7), Shl(1, 6))) >> ELSE << >>)
    \o si5351_writeBulk(PLLBase(pll), PLL_P1(conf), PLL_P2(conf), PLL_P3(conf), 0, SI5351_R_DIV_1)
    \o << W(177, Or8(Shl(1, 7), Shl(1, 5))) >>

Programmed(conf) ==
    [set |-> TRUE, mult |-> conf.mult, num |-> conf.num, denom |-> conf.denom,
     allowIntegerMode |-> conf.allowIntegerMode]

si5351_SetupPLL(pll, conf, nack) ==
    /\ Issue(SetupPLLWrites(pll, conf), nack)
    /\ ret' = 0
    /\ call' = [op |-> "SetupPLL", pll |-> pll, conf |-> conf]
    /\ lastPLL' = [lastPLL EXCEPT ![pll] = Programmed(conf)]
    /\ UNCHANGED <<si5351Correction, pll_conf, out_conf>>

----------------------------------------------------------------------------
(* si5351_SetupOutput *)

SetupOutputRet_No8Fraction(output, conf) ==
    IF output > 2 THEN 1
    ELSE IF conf.allowIntegerMode = 0 /\ conf.div <= 8 THEN 2
    ELSE 0

\* The value si5351_SetupOutput returns (lines 114-121, 173).
SetupOutputRet(output, conf) ==
    IF output > 2 THEN 1
    ELSE IF conf.allowIntegerMode = 0
            /\ (conf.div < 8 \/ (conf.div = 8 /\ conf.num = 0)) THEN 2
    ELSE 0

MS_P1_NoDivBy4(conf) == 128 * conf.div + CDiv(128 * conf.num, conf.denom) - 512

MS_P1(conf) == IF conf.div = 4 THEN 0
               ELSE 128 * conf.div + CDiv(128 * conf.num, conf.denom) - 512

MS_P2(conf) == IF conf.div = 4 THEN 0 ELSE CMod(128 * conf.num, conf.denom)

MS_P3(conf) == IF conf.div = 4 THEN 1 ELSE conf.denom

MS_DivBy4(conf) == IF conf.div = 4 THEN 3 ELSE 0

MSBase(output) == 42 + 8 * output

PhaseOffsetRegister(output) == 165 + output

ClkControlRegister(output) == 16 + output

\* The control byte of lines 158-167.
ClkControl(pllSource, driveStrength, conf) ==
    LET c0 == U8(Or8(12, driveStrength))
        c1 == Or8(c0, Shl(And8(conf.inverted, 1), 4))
        c2 == IF pllSource = "B" THEN Or8(c1, Shl(1, 5)) ELSE c1
    IN  IF conf.allowIntegerMode # 0 /\ (conf.num = 0 \/ conf.div = 4)
        THEN Or8(c2, Shl(1, 6)) ELSE c2

\* The three steps of lines 169-171, in the order the code makes them.
OutputWriteSteps(output, pllSource, driveStrength, conf, phaseOffset) ==
    << << W(ClkControlRegister(output), ClkControl(pllSource, driveStrength, conf)) >>,
       si5351_writeBulk(MSBase(output), MS_P1(conf), MS_P2(conf), MS_P3(conf),
                        MS_DivBy4(conf), conf.rdiv),
       << W(PhaseOffsetRegister(output), And8(phaseOffset, 127)) >> >>

SetupOutputWrites_PhaseFirst(output, pllSource, driveStrength, conf, phaseOffset) ==
    IF SetupOutputRet(output, conf) # 0 THEN << >>
    ELSE LET s == OutputWriteSteps(output, pllSource, driveStrength, conf, phaseOffset)
         IN  s[1] \o s[3] \o s[2]

\* si5351_SetupOutput: its writes, in order; none when validation fails.
SetupOutputWrites(output, pllSource, driveStrength, conf, phaseOffset) ==
    IF SetupOutputRet(output, conf) # 0 THEN << >>
    ELSE LET s == OutputWriteSteps(output, pllSource, driveStrength, conf, phaseOffset)
         IN  s[1] \o s[2] \o s[3]

si5351_SetupOutput(output, pllSource, driveStrength, conf, phaseOffset, nack) ==
    /\ Issue(SetupOutputWrites(output, pllSource, driveStrength, conf, phaseOffset), nack)
    /\ ret' = SetupOutputRet(output, conf)
    /\ call' = [op |-> "SetupOutput", output |-> output, pllSource |-> pllSource,
                driveStrength |-> driveStrength, conf |-> conf, phaseOffset |-> phaseOffset]
    /\ UNCHANGED <<si5351Correction, pll_conf, out_conf, lastPLL>>

----------------------------------------------------------------------------
(* The planner calls, si5351_SetupCLK0 / si5351_SetupCLK2, si5351_EnableOutputs *)

PLLFields(p, allow) ==
    [mult |-> p.mult, num |-> p.num, denom |-> p.denom, allowIntegerMode |-> allow]

OutFields(p, inverted) ==
    [div |-> p.div, num |-> p.y, denom |-> p.z, rdiv |-> p.rdiv,
     allowIntegerMode |-> p.allowIntegerMode, inverted |-> inverted]

\* A planner call on the caller's two structures: the planner assigns every field
\* but pll_conf->allowIntegerMode and out_conf->inverted, which stay as they were.
Planned(name, Fclk, p) ==
    /\ pll_conf' = PLLFields(p, pll_conf.allowIntegerMode)
    /\ out_conf' = OutFields(p, out_conf.inverted)
    /\ log' = << >>
    /\ ret' = 0
    /\ call' = [op |-> name, Fclk |-> Fclk]
    /\ UNCHANGED <<si5351Correction, regs, lastPLL, busFailed>>

Calc(Fclk) == Planned("Calc", Fclk, si5351_Calc(Fclk, si5351Correction))

CalcIQ(Fclk) == Planned("CalcIQ", Fclk, si5351_CalcIQ(Fclk, si5351Correction))

\* si5351_SetupCLK0 (pll "A", output 0) and si5351_SetupCLK2 (pll "B", output 2): the
\* two structures are locals that si5351_Calc fills only in part, so the PLL's
\* allowIntegerMode and the output's inverted are read uninitialized: `allow` and
\* `inverted` are whatever the stack held.
SetupCLK(name, pll, output, Fclk, driveStrength, allow, inverted, nack) ==
    LET p  == si5351_Calc(Fclk, si5351Correction)
        pc == PLLFields(p, allow)
        oc == OutFields(p, inverted)
    IN  /\ Issue(SetupPLLWrites(pll, pc)
                 \o SetupOutputWrites(output, pll, driveStrength, oc, 0), nack)
        /\ ret' = 0
        /\ call' = [op |-> name, Fclk |-> Fclk, driveStrength |-> driveStrength,
                    pll_conf |-> pc, out_conf |-> oc]
        /\ lastPLL' = [lastPLL EXCEPT ![pll] = Programmed(pc)]
        /\ UNCHANGED <<si5351Correction, pll_conf, out_conf>>

si5351_SetupCLK0(Fclk, driveStrength, allow, inverted, nack) ==
    SetupCLK("SetupCLK0", "A", 0, Fclk, driveStrength, allow, inverted, nack)

si5351_SetupCLK2(Fclk, driveStrength, allow, inverted, nack) ==
    SetupCLK("SetupCLK2", "B", 2, Fclk, driveStrength, allow, inverted, nack)

\* si5351_EnableOutputs: ~enabled, converted to uint8_t.
si5351_EnableOutputs(enabled, nack) ==
    /\ Issue(<< W(3, -enabled - 1) >>, nack)
    /\ ret' = 0
    /\ call' = [op |-> "EnableOutputs", enabled |-> enabled]
    /\ UNCHANGED <<si5351Correction, pll_conf, out_conf, lastPLL>>

\* A direct call of si5351_writeBulk.
WriteBulk(baseaddr, P1, P2, P3, divBy4, rdiv, nack) ==
    /\ Issue(si5351_writeBulk(baseaddr, P1, P2, P3, divBy4, rdiv), nack)
    /\ ret' = 0
    /\ call' = [op |-> "writeBulk", baseaddr |-> baseaddr, P1 |-> P1, P2 |-> P2, P3 |-> P3,
                divBy4 |-> divBy4, rdiv |-> rdiv]
    /\ UNCHANGED <<si5351Correction, pll_conf, out_conf, lastPLL>>

----------------------------------------------------------------------------
(* The inputs *)

Corrections == {0, 970}

\* Frequencies at which the planners change regime, clamp, or do worst, and the
\* frequencies of the documented scenarios.
FclkAnchors ==
    { -5, 8000, 400000, 500000, 1000000, 1400000, 2200489, 2559055, 4900000, 8000000,
      10000000, 10000097, 28000000, 78000007, 80999969, 81000000, 81249998, 94444447,
      100000000, 108333337, 112500000, 144000000, 150000000, 160000000, 2000000000 }

FclkSweep == { 500000 + 4000037 * k : k \in 0..Steps }

FclkInputs ==
    FclkSweep \cup { f + d : f \in FclkAnchors, d \in (-Window)..Window }

ZeroPLLConf == [mult |-> 0, num |-> 0, denom |-> 0, allowIntegerMode |-> 0]

ZeroOutConf == [div |-> 0, num |-> 0, denom |-> 0, rdiv |-> 0,
                allowIntegerMode |-> 0, inverted |-> 0]

NoReq == [op |-> "none"]

\* The state a call of si5351_Init(correction) leaves when the chip acknowledges
\* every write (registers the driver has not written read 0).
Initialized(correction) ==
    /\ si5351Correction = correction
    /\ regs = ApplyWrites([a \in RegAddrs |-> 0], InitWrites, {}, 1)
    /\ log = Logged(InitWrites, {})
    /\ ret = 0
    /\ call = [op |-> "Init", correction |-> correction]
    /\ pll_conf = ZeroPLLConf
    /\ out_conf = ZeroOutConf
    /\ lastPLL = [p \in {"A", "B"} |-> NoPLL]
    /\ busFailed = FALSE
    /\ ncalls = 0

----------------------------------------------------------------------------
(* SpecCalc: the planners *)

InitCalc ==
    /\ \E c \in Corrections : Initialized(c)
    /\ \E F \in FclkInputs, name \in {"Calc", "CalcIQ"} : req = [op |-> name, Fclk |-> F]

DoCalc ==
    /\ req.op = "Calc"
    /\ Calc(req.Fclk)
    /\ req' = NoReq
    /\ ncalls' = ncalls + 1

DoCalcIQ ==
    /\ req.op = "CalcIQ"
    /\ CalcIQ(req.Fclk)
    /\ req' = NoReq
    /\ ncalls' = ncalls + 1

NextCalc == DoCalc \/ DoCalcIQ

SpecCalc == InitCalc /\ [][NextCalc]_vars

----------------------------------------------------------------------------
(* Exact arithmetic for the reconstructed frequency: the products of the    *)
(* frequency formula exceed 32 bits, so they are computed on little-endian  *)
(* sequences of base-10000 digits.                                          *)

BigOf(n) == << n % 10000, (n \div 10000) % 10000, n \div 100000000 >>

RECURSIVE BigCarry(_, _)
BigCarry(s, c) ==
    IF s = << >> THEN (IF c = 0 THEN << >> ELSE << c % 10000 >> \o BigCarry(<< >>, c \div 10000))
    ELSE LET t == Head(s) + c IN << t % 10000 >> \o BigCarry(Tail(s), t \div 10000)

RECURSIVE BigDot(_, _, _, _)
BigDot(u, v, k, i) ==
    IF i > Len(u) THEN 0
    ELSE (IF k + 1 - i >= 1 /\ k + 1 - i <= Len(v) THEN u[i] * v[k + 1 - i] ELSE 0)
         + BigDot(u, v, k, i + 1)

BigMul(u, v) == BigCarry([k \in 1..(Len(u) + Len(v) - 1) |-> BigDot(u, v, k, 1)], 0)

RECURSIVE BigTrim(_)
BigTrim(s) ==
    IF s # << >> /\ s[Len(s)] = 0 THEN BigTrim(SubSeq(s, 1, Len(s) - 1)) ELSE s

RECURSIVE BigLeqFrom(_, _, _)
BigLeqFrom(u, v, i) ==
    IF i = 0 THEN TRUE
    ELSE IF u[i] # v[i] THEN u[i] < v[i]
    ELSE BigLeqFrom(u, v, i - 1)

BigLeq(u, v) ==
    LET a == BigTrim(u)
        b == BigTrim(v)
    IN  IF Len(a) # Len(b) THEN Len(a) < Len(b) ELSE BigLeqFrom(a, b, Len(a))

\* |Fxtal * (mult + num/denom) / ((div + y/z) * 2^rdiv) - Fclk| <= hz, exactly:
\* (Fclk - hz) * D <= N <= (Fclk + hz) * D with the frequency N / D.
FoundWithin(Fclk, pc, oc, hz) ==
    LET N == BigMul(BigMul(BigOf(Fxtal), BigOf(pc.mult * pc.denom + pc.num)), BigOf(oc.denom))
        D == BigMul(BigMul(BigOf(pc.denom), BigOf(oc.div * oc.denom + oc.num)),
                    BigOf(Pow2(oc.rdiv)))
    IN  /\ BigLeq(BigMul(BigOf(Fclk - hz), D), N)
        /\ BigLeq(N, BigMul(BigOf(Fclk + hz), D))

\* The state after a planner call made with correction 0.
Planned0(name) == call.op = name /\ si5351Correction = 0

----------------------------------------------------------------------------
(* Claims about the planners, checked under SpecCalc *)

\* C1: for every Fclk in [500,000, 112,500,000] with correction 0, the frequency
\* reconstructed from what si5351_Calc returns is within 6 Hz of Fclk.
C1_CalcWithin6Hz ==
    (Planned0("Calc") /\ call.Fclk >= 500000 /\ call.Fclk <= 112500000)
        => FoundWithin(call.Fclk, pll_conf, out_conf, 6)

\* C2: for every Fclk in [1,400,000, 100,000,000] with correction 0, si5351_CalcIQ
\* returns an integer output divider (fraction 0/1, R-divider 1) and the
\* reconstructed frequency is within 4 Hz of Fclk.
C2_CalcIQWithin4Hz ==
    (Planned0("CalcIQ") /\ call.Fclk >= 1400000 /\ call.Fclk <= 100000000)
        => /\ out_conf.num = 0 /\ out_conf.denom = 1 /\ Pow2(out_conf.rdiv) = 1
           /\ out_conf.div >= 1
           /\ FoundWithin(call.Fclk, pll_conf, out_conf, 4)

\* C2 witness: the quadrature planner was run at 94,444,447 Hz, where its error
\* is more than 2 Hz.
C2_Witness ==
    /\ Planned0("CalcIQ") /\ call.Fclk = 94444447
    /\ ~FoundWithin(call.Fclk, pll_conf, out_conf, 2)

FractionInBounds(num, denom) ==
    /\ denom >= 1 /\ denom <= Pow2(20)
    /\ num >= 0 /\ num <= Pow2(20) - 1
    /\ (denom > 1 => num < denom)

\* C6: with correction 0, both fractions either planner returns satisfy
\* fracDenom in [1, 2^20], fracNum in [0, 2^20 - 1], fracNum < fracDenom when
\* fracDenom > 1.
C6_FractionsProper ==
    (Planned0("Calc") \/ Planned0("CalcIQ"))
        => /\ FractionInBounds(pll_conf.num, pll_conf.denom)
           /\ FractionInBounds(out_conf.num, out_conf.denom)

\* The PLL frequency Fxtal * (mult + num/denom) lies in [lo * Fxtal, hi * Fxtal].
PLLWithin(pc, lo, hi) ==
    /\ lo * pc.denom <= pc.mult * pc.denom + pc.num
    /\ pc.mult * pc.denom + pc.num <= hi * pc.denom

\* C7 as stated: with correction 0, either planner returns a multiplier in
\* [24, 36] and a PLL frequency in [600 MHz, 900 MHz].
C7_MultiplierRange ==
    (Planned0("Calc") \/ Planned0("CalcIQ"))
        => /\ pll_conf.mult >= 24 /\ pll_conf.mult <= 36
           /\ PLLWithin(pll_conf, 24, 36)

\* C7 amended: that holds of si5351_Calc, and of si5351_CalcIQ from 4,900,000 Hz
\* up; below 4,900,000 Hz si5351_CalcIQ divides by 127 and returns a multiplier in
\* [7, 24], the PLL running between 7 and 25 times Fxtal.
C7_MultiplierRangeAmended ==
    /\ (Planned0("Calc") \/ (Planned0("CalcIQ") /\ call.Fclk >= 4900000))
           => /\ pll_conf.mult >= 24 /\ pll_conf.mult <= 36
              /\ PLLWithin(pll_conf, 24, 36)
    /\ (Planned0("CalcIQ") /\ call.Fclk < 4900000)
           => /\ out_conf.div = 127
              /\ pll_conf.mult >= 7 /\ pll_conf.mult <= 24
              /\ PLLWithin(pll_conf, 7, 25)

\* C7 witness: the quadrature planner was run below 4,900,000 Hz and returned the
\* multiplier 7.
C7_Witness ==
    /\ Planned0("CalcIQ") /\ call.Fclk < 4900000
    /\ pll_conf.mult = 7

----------------------------------------------------------------------------
(* SpecSetup: single calls of the encoder and of the two setup functions *)

\* Field values at the edges of the 18-bit and 20-bit widths.
P18Edges == {0, 65535, 173477, Pow2(18) - 1}

P20Edges == {0, 65536, 678490, Pow2(20) - 1}

\* Fractions <<fracNum, fracDenom>> at the edges of the data model, and two
\* the planners return.
FracEdges ==
    { <<0, 1>>, <<1, 2>>, <<5, 1>>, <<Pow2(20) - 1, 1>>,
      <<0, Pow2(20) - 1>>, <<Pow2(20) - 2, Pow2(20) - 1>>,
      <<0, Pow2(20)>>, <<Pow2(20) - 1, Pow2(20)>>,
      <<583333, 1041666>>, <<1041666, 1041666>> }

\* The caller's choices for a channel: PLL source, drive strength, inversion,
\* phase offset and R-divider.
ChannelStyles ==
    { [pllSource |-> "A", driveStrength |-> 0, inverted |-> 0, phaseOffset |-> 0, rdiv |-> 0],
      [pllSource |-> "A", driveStrength |-> 1, inverted |-> 0, phaseOffset |-> 90, rdiv |-> 0],
      [pllSource |-> "B", driveStrength |-> 3, inverted |-> 1, phaseOffset |-> 255, rdiv |-> 6] }

PLLConfOf(mult, frac, allow) ==
    [mult |-> mult, num |-> frac[1], denom |-> frac[2], allowIntegerMode |-> allow]

OutConfOf(div, frac, allow, style) ==
    [div |-> div, num |-> frac[1], denom |-> frac[2], rdiv |-> style.rdiv,
     allowIntegerMode |-> allow, inverted |-> style.inverted]

ReqWriteBulk ==
    \E P1 \in P18Edges, P2 \in P20Edges, P3 \in P20Edges, divBy4 \in 0..3, rdiv \in 0..7,
       nack \in NackSets(8) :
        req = [op |-> "writeBulk", baseaddr |-> 58, P1 |-> P1, P2 |-> P2, P3 |-> P3,
               divBy4 |-> divBy4, rdiv |-> rdiv, nack |-> nack]

ReqSetupPLL ==
    \E pll \in {"A", "B"}, mult \in {24, 25, 36}, frac \in FracEdges, allow \in {0, 1} :
        LET conf == PLLConfOf(mult, frac, allow)
        IN  \E nack \in NackSets(Len(SetupPLLWrites(pll, conf))) :
                req = [op |-> "SetupPLL", pll |-> pll, conf |-> conf, nack |-> nack]

ReqSetupOutput ==
    \E output \in 0..3, style \in ChannelStyles, div \in {4, 6, 7, 8, 9, 127, 1800},
       frac \in FracEdges, allow \in {0, 1} :
        LET conf == OutConfOf(div, frac, allow, style)
        IN  \E nack \in NackSets(Len(SetupOutputWrites(output, style.pllSource,
                                        style.driveStrength, conf, style.phaseOffset))) :
                req = [op |-> "SetupOutput", output |-> output, pllSource |-> style.pllSource,
                       driveStrength |-> style.driveStrength, conf |-> conf,
                       phaseOffset |-> style.phaseOffset, nack |-> nack]

InitSetup ==
    /\ Initialized(0)
    /\ (ReqWriteBulk \/ ReqSetupPLL \/ ReqSetupOutput)

DoWriteBulk ==
    /\ req.op = "writeBulk"
    /\ WriteBulk(req.baseaddr, req.P1, req.P2, req.P3, req.divBy4, req.rdiv, req.nack)
    /\ req' = NoReq
    /\ ncalls' = ncalls + 1

DoSetupPLL ==
    /\ req.op = "SetupPLL"
    /\ si5351_SetupPLL(req.pll, req.conf, req.nack)
    /\ req' = NoReq
    /\ ncalls' = ncalls + 1

DoSetupOutput ==
    /\ req.op = "SetupOutput"
    /\ si5351_SetupOutput(req.output, req.pllSource, req.driveStrength, req.conf,
                          req.phaseOffset, req.nack)
    /\ req' = NoReq
    /\ ncalls' = ncalls + 1

NextSetup == DoWriteBulk \/ DoSetupPLL \/ DoSetupOutput

SpecSetup == InitSetup /\ [][NextSetup]_vars

----------------------------------------------------------------------------
(* Spec: the driver, any sequence of at most MaxCalls calls after si5351_Init *)

\* What the bus does to a call of n writes in Spec: all acknowledged, the first
\* one lost, or none acknowledged.
BusOutcomes(n) == {{}, {1} \cap (1..n), 1..n}

PLLConfs ==
    { PLLConfOf(36, <<0, 1>>, 1), PLLConfOf(36, <<0, 1>>, 0), PLLConfOf(25, <<0, 1>>, 1),
      PLLConfOf(34, <<583333, 1041666>>, 1) }

OutConfs ==
    { OutConfOf(90, <<0, 1000000>>, 1, s) : s \in ChannelStyles }
    \cup { OutConfOf(4, <<0, 1>>, a, s) : a \in {0, 1}, s \in ChannelStyles }
    \cup { OutConfOf(11, <<1, 9>>, 0, s) : s \in ChannelStyles }

\* The structure a caller can pass to si5351_SetupPLL: one of its own, or the one
\* a planner filled.
PLLArgs == PLLConfs \cup (IF pll_conf.denom # 0 THEN {pll_conf} ELSE {})

Init ==
    /\ \E c \in Corrections : Initialized(c)
    /\ req = NoReq

\* A call is made while fewer than MaxCalls were.
MayCall == ncalls < MaxCalls

Called ==
    /\ ncalls' = ncalls + 1
    /\ UNCHANGED req

CallInit ==
    /\ MayCall
    /\ \E c \in Corrections, nack \in BusOutcomes(Len(InitWrites)) :
           Called /\ si5351_Init(c, nack)

CallSetupPLL ==
    /\ MayCall
    /\ \E pll \in {"A", "B"}, conf \in PLLArgs :
           \E nack \in BusOutcomes(Len(SetupPLLWrites(pll, conf))) :
               Called /\ si5351_SetupPLL(pll, conf, nack)

CallSetupOutput ==
    /\ MayCall
    /\ \E output \in {0, 2, 3}, conf \in OutConfs, style \in ChannelStyles :
           /\ style.inverted = conf.inverted /\ style.rdiv = conf.rdiv
           /\ \E nack \in BusOutcomes(Len(SetupOutputWrites(output, style.pllSource,
                                           style.driveStrength, conf, style.phaseOffset))) :
                  Called /\ si5351_SetupOutput(output, style.pllSource, style.driveStrength,
                                               conf, style.phaseOffset, nack)

CallCalc ==
    /\ MayCall
    /\ \E F \in {10000000, 144000000} : Called /\ Calc(F)

CallCalcIQ ==
    /\ MayCall
    /\ \E F \in {7000000} : Called /\ CalcIQ(F)

CallSetupCLK0 ==
    /\ MayCall
    /\ \E F \in {10000000, 144000000}, d \in {1}, allow \in {0, 1}, inverted \in {0, 1},
          nack \in BusOutcomes(20) :
           Called /\ si5351_SetupCLK0(F, d, allow, inverted, nack)

CallSetupCLK2 ==
    /\ MayCall
    /\ \E F \in {28000000, 144000000}, d \in {1}, allow \in {0, 1}, inverted \in {0, 1},
          nack \in BusOutcomes(20) :
           Called /\ si5351_SetupCLK2(F, d, allow, inverted, nack)

CallEnableOutputs ==
    /\ MayCall
    /\ \E enabled \in {0, 5}, nack \in BusOutcomes(1) :
           Called /\ si5351_EnableOutputs(enabled, nack)

Next ==
    \/ CallInit
    \/ CallSetupPLL
    \/ CallSetupOutput
    \/ CallCalc
    \/ CallCalcIQ
    \/ CallSetupCLK0
    \/ CallSetupCLK2
    \/ CallEnableOutputs

Spec == Init /\ [][Next]_vars

----------------------------------------------------------------------------
(* Claims about the encoder and the setup calls, checked under SpecSetup *)

\* The five values an 8-byte block holds, by the documented layout.
DecodeBlock(b) ==
    [P1 |-> (b[3] % 4) * 65536 + b[4] * 256 + b[5],
     P2 |-> (b[6] % 16) * 65536 + b[7] * 256 + b[8],
     P3 |-> (b[6] \div 16) * 65536 + b[1] * 256 + b[2],
     divBy4 |-> (b[3] \div 4) % 4,
     rdiv |-> (b[3] \div 16) % 8]

\* The data bytes of the eight writes the last call issued from position `from` on.
LogBlock(from) == [i \in 1..8 |-> log[from + i - 1].data]

\* The eight registers from `base` on.
RegBlock(base) == [i \in 1..8 |-> regs[base + i - 1]]

\* The last call's writes from position `from` on address base, base+1, ..., base+7.
BlockAt(from, base) ==
    /\ Len(log) >= from + 7
    /\ \A i \in 1..8 : log[from + i - 1].reg = base + i - 1

AllAcked == \A i \in DOMAIN log : log[i].ack

\* The return value the code computes on structural validation alone.
ValidationResult(output, conf) ==
    IF output > 2 THEN 1
    ELSE IF conf.allowIntegerMode = 0 /\ (conf.div < 8 \/ (conf.div = 8 /\ conf.num = 0))
    THEN 2
    ELSE 0

\* C3 as stated: si5351_SetupOutput returns 1 exactly when channel > 2, otherwise 2
\* exactly when integer mode is disallowed and the divider is below 8 and not the
\* divide-by-4 case (div = 4, fracNum = 0), otherwise 0, whatever the writes report.
C3_ReturnValue ==
    call.op = "SetupOutput"
        => ret = IF call.output > 2 THEN 1
                 ELSE IF /\ call.conf.allowIntegerMode = 0
                         /\ call.conf.div < 8
                         /\ ~(call.conf.div = 4 /\ call.conf.num = 0)
                 THEN 2
                 ELSE 0

\* C3 amended: it returns 1 exactly when channel > 2, otherwise 2 exactly when
\* integer mode is disallowed and the divider is below 8 (4 included) or is 8 with
\* fracNum = 0, otherwise 0, whatever the writes report.
C3_ReturnValueAmended ==
    call.op = "SetupOutput" => ret = ValidationResult(call.output, call.conf)

\* C3 witness: a setup with divider 8, a fraction and integer mode disallowed
\* returned 0 although one of its writes was not acknowledged.
C3_Witness ==
    /\ call.op = "SetupOutput" /\ ret = 0
    /\ call.conf.div = 8 /\ call.conf.num # 0 /\ call.conf.allowIntegerMode = 0
    /\ ~AllAcked

\* C4: a channel setup with divider 4 on a valid channel writes a multisynth block
\* that encodes P1 = 0, P2 = 0, P3 = 1 and divide-by-4 flag 3, whatever the fraction.
C4_DivBy4Block ==
    (call.op = "SetupOutput" /\ call.output <= 2 /\ call.conf.div = 4 /\ log # << >>)
        => /\ BlockAt(2, MSBase(call.output))
           /\ LET d == DecodeBlock(LogBlock(2))
              IN  d.P1 = 0 /\ d.P2 = 0 /\ d.P3 = 1 /\ d.divBy4 = 3
           /\ AllAcked => LET r == DecodeBlock(RegBlock(MSBase(call.output)))
                          IN  r.P1 = 0 /\ r.P2 = 0 /\ r.P3 = 1 /\ r.divBy4 = 3

\* C4 witness: a divide-by-4 setup that asked for a non-zero fraction wrote its block.
C4_Witness ==
    /\ call.op = "SetupOutput" /\ call.output <= 2 /\ call.conf.div = 4
    /\ call.conf.num # 0 /\ call.conf.denom > 1
    /\ Len(log) = 10 /\ AllAcked

\* C5: the eight bytes si5351_writeBulk writes to base..base+7 decode, by the
\* documented layout, to the P1 < 2^18, P2 < 2^20, P3 < 2^20, flag <= 3 and
\* exponent <= 7 it was given.
C5_RoundTrip ==
    (/\ call.op = "writeBulk"
     /\ call.P1 \in 0..(Pow2(18) - 1) /\ call.P2 \in 0..(Pow2(20) - 1)
     /\ call.P3 \in 0..(Pow2(20) - 1) /\ call.divBy4 \in 0..3 /\ call.rdiv \in 0..7)
        => LET given == [P1 |-> call.P1, P2 |-> call.P2, P3 |-> call.P3,
                         divBy4 |-> call.divBy4, rdiv |-> call.rdiv]
           IN  /\ Len(log) = 8
               /\ BlockAt(1, call.baseaddr)
               /\ DecodeBlock(LogBlock(1)) = given
               /\ AllAcked => DecodeBlock(RegBlock(call.baseaddr)) = given

\* C5 witness: a block with every field at its largest was written and acknowledged.
C5_Witness ==
    /\ call.op = "writeBulk" /\ AllAcked
    /\ call.P1 = Pow2(18) - 1 /\ call.P2 = Pow2(20) - 1 /\ call.P3 = Pow2(20) - 1
    /\ call.divBy4 = 3 /\ call.rdiv = 7
    /\ \A i \in {0, 1, 3, 4, 5, 6, 7} : regs[call.baseaddr + i] = 255

\* The fields fit their widths and the block the call wrote from position `from`
\* on holds them.
FieldsFit(P1, P2, P3, from) ==
    /\ P1 >= 0 /\ P1 < Pow2(18)
    /\ P2 >= 0 /\ P2 < Pow2(20)
    /\ P3 >= 0 /\ P3 < Pow2(20)
    /\ LET d == DecodeBlock(LogBlock(from))
       IN  d.P1 = P1 /\ d.P2 = P2 /\ d.P3 = P3

DividerInBounds(div) == div \in {4, 6} \/ (div >= 8 /\ div <= 1800)

FractionInBoundsAmended(num, denom) ==
    /\ denom >= 1 /\ denom <= Pow2(20) - 1
    /\ num >= 0 /\ num < denom

\* The parameters of the last setup call are within the data model's bounds, as
\* the claim states them or as amended.
ParamsInBounds(amended) ==
    /\ call.op = "SetupPLL" => (call.conf.mult >= 24 /\ call.conf.mult <= 36)
    /\ call.op = "SetupOutput" => DividerInBounds(call.conf.div)
    /\ IF amended THEN FractionInBoundsAmended(call.conf.num, call.conf.denom)
       ELSE FractionInBounds(call.conf.num, call.conf.denom)

\* The fields of the block the last setup call wrote fit their widths.
SetupFieldsFit ==
    /\ call.op = "SetupPLL"
           => FieldsFit(PLL_P1(call.conf), PLL_P2(call.conf), PLL_P3(call.conf), Len(log) - 8)
    /\ call.op = "SetupOutput"
           => FieldsFit(MS_P1(call.conf), MS_P2(call.conf), MS_P3(call.conf), 2)

\* A setup call that wrote a block.
SetupWrote == call.op = "SetupPLL" \/ (call.op = "SetupOutput" /\ ret = 0)

\* C8 as stated: for parameters within the data-model bounds (multiplier in [24, 36],
\* divider in {4, 6} or [8, 1800], fracNum in [0, 2^20 - 1], fracDenom in [1, 2^20],
\* fracNum < fracDenom when fracDenom > 1) the fields P1, P2, P3 the setup calls
\* compute are non-negative and fit 18, 20 and 20 bits, so no set bit is dropped.
C8_FieldsFit == (SetupWrote /\ ParamsInBounds(FALSE)) => SetupFieldsFit

\* C8 amended: the same with fracDenom in [1, 2^20 - 1] and fracNum < fracDenom for
\* every fracDenom (so fracNum = 0 when fracDenom = 1).
C8_FieldsFitAmended == (SetupWrote /\ ParamsInBounds(TRUE)) => SetupFieldsFit

\* C8 witness: a channel setup with the largest divider and the largest fraction
\* wrote a block whose P3 uses all 20 bits.
C8_Witness ==
    /\ call.op = "SetupOutput" /\ ret = 0
    /\ call.conf.div = 1800 /\ call.conf.denom = Pow2(20) - 1
    /\ call.conf.num = Pow2(20) - 2
    /\ DecodeBlock(LogBlock(2)).P3 = Pow2(20) - 1

\* C9: a channel setup that passes validation writes the control byte at 16+c, then
\* the block at 42+8c .. 42+8c+7 in ascending order, then the phase offset, masked
\* to 7 bits, at 165+c; a PLL setup writes its block (base 26 or 34) and then, last,
\* register 177; a channel setup that returns an error writes nothing.
C9_WriteOrder ==
    /\ (call.op = "SetupOutput" /\ ret = 0)
           => /\ Len(log) = 10
              /\ log[1].reg = 16 + call.output
              /\ BlockAt(2, 42 + 8 * call.output)
              /\ log[10].reg = 165 + call.output
              /\ log[10].data = call.phaseOffset % 128
    /\ (call.op = "SetupOutput" /\ ret # 0)
           => /\ log = << >>
              /\ regs = ApplyWrites([a \in RegAddrs |-> 0], InitWrites, {}, 1)
    /\ call.op = "SetupPLL"
           => /\ Len(log) \in {9, 10}
              /\ BlockAt(Len(log) - 8, IF call.pll = "A" THEN 26 ELSE 34)
              /\ log[Len(log)].reg = 177
              /\ \A i \in 1..(Len(log) - 1) : log[i].reg # 177

\* C9 witness: a setup of channel 2 with phase offset 255 wrote the masked offset
\* to register 167 as its tenth and last write.
C9_Witness ==
    /\ call.op = "SetupOutput" /\ call.output = 2 /\ call.phaseOffset = 255
    /\ Len(log) = 10 /\ log[10].reg = 167 /\ log[10].data = 127

----------------------------------------------------------------------------
(* Claim about the integer-mode flag, checked under Spec *)

\* Bit 6 (FBx_INT) of the PLL's integer-mode flag register.
IntegerBit(pll) == (regs[IntCtlAddr(pll)] \div 64) % 2

\* C10: after initialization and any sequence of PLL setups, bit 6 of register 22
\* (PLL A) or 23 (PLL B) is set only if the parameters most recently programmed
\* into that PLL satisfy the integer-mode condition (every write acknowledged).
C10_IntegerFlagTracksPLL ==
    ~busFailed
        => \A pll \in {"A", "B"} :
               IntegerBit(pll) = 1
                   => lastPLL[pll].set /\ PLLIntegerMode(lastPLL[pll])

====
